---- MODULE Spec2Model ----
(***************************************************************************)
(* mskvfs: the on-disk object cache of the FUSE mount.                     *)
(*                                                                         *)
(*   File.Open            fs/file.go   (src/unnamed/part_004)              *)
(*   DirSize, MinFS.DeleteUntilQuota, MinFS.MonitorCache                   *)
(*                        fs/cache.go  (src/unnamed/part_002)              *)
(*   DeleteUntilQuota with deferred unlocks: the version of                *)
(*                        src/fs/cache.go, lines 178-207                   *)
(*   Dir.Lookup, ReadDirAll, Mkdir, Remove, Create, Rename                 *)
(*                        src/fs/dir.go, for the root directory            *)
(*   keyed mutex (mfs.km), MinFS.Acquire, handle release: not in src/,     *)
(*   modelled from sections 4.1 and 4.3 of the specification.              *)
(*                                                                         *)
(* Sizes are counted in units of 100 MB instead of float64 gigabytes.      *)
(***************************************************************************)
EXTENDS Integers, Sequences, FiniteSets, TLC

\* ------------------------------------------------------------------ bounds
MaxOpens == 2       \* File.Open requests issued in one behaviour
MaxTicks == 2       \* monitor ticks in one behaviour
MaxTime  == 1       \* last value of the clock that stamps mtimes
MaxDirOps == 3      \* requests on the root directory in one behaviour

\* ------------------------------------------------------------ environment
Tasks    == {"t1", "t2"}            \* concurrent FUSE request handlers
Evictor  == "ev"                    \* the MonitorCache goroutine
Keys     == {"a", "c"}              \* object keys present in the bucket
Missing  == "zz"                    \* a key the store does not hold
Quotas   == {0, 3, 4}               \* values of the quota= mount option
CacheDir == "/cache"
None     == "none"

ObjSize(k) == IF k = "a" THEN 2 ELSE 4

\* Buckets surface as the first-level directories of the mount.
MainBucket  == "b"
OtherBucket == "b2"

VARIABLES
    quota,      \* mfs.config.quota
    etag,       \* object store: key -> current ETag
    files,      \* cache directory: path -> [size, mtime] of the files present
    openfds,    \* mfs.openfds: handle id -> cache path
    nextfd,     \* next handle id MinFS.Acquire hands out
    live,       \* handle ids returned by a successful Open and not yet released
    km,         \* keyed-mutex table: key -> [owner, refcount]
    opc,        \* per task: position inside File.Open
    oreq,       \* per task: [key, etag, trunc, path, fh] of the request served,
                \* and peer: another Open fetched the same path meanwhile
    epc,        \* position of the monitor / DeleteUntilQuota
    ev,         \* [items, i, quota, used] locals of DeleteUntilQuota
    now,        \* clock
    nOpens, nTicks,
    tick,       \* history of the last tick: [ran, total, removed, skipped, quiet]
    nFetched,   \* path -> fetches that completed successfully
    nRemoved,   \* path -> files of that path removed by the evictor
    db,         \* meta bucket of the root directory: name -> "file" | "dir"
    scanned,    \* dir.scanned of the root directory
    last,       \* history of the last request answered, an Open that got
                \* ENOENT or a request on the root directory:
                \* [op, name, res, listed, n]
    m           \* mfs.m, the lock of the handle registry: [by, h], its
                \* holder and the handle a release holds it for

vars == <<quota, etag, files, openfds, nextfd, live, km, opc, oreq, epc, ev,
          now, nOpens, nTicks, tick, nFetched, nRemoved, db, scanned, last,
          m>>

\* The state of the directory tree, which the cache code never touches.
dirVars == <<db, scanned>>

\* --------------------------------------------------------------- helpers
\* Mutant: the ETag left out of the file name.
cacheAllocateNoETag(key, e) == CacheDir \o "/" \o key \o ".fcache"

\* File.cacheAllocate: path.Join(cache, object.Key + "-" + object.ETag + ".fcache")
cacheAllocate(key, e) == CacheDir \o "/" \o key \o "-" \o e \o ".fcache"

ETags == {"E1", "E2"}
Paths == {cacheAllocate(k, e) : k \in Keys, e \in ETags}

Exists(p) == p \in DOMAIN files

Empty == [x \in {} |-> 0]

Put(f, k, v) == [x \in DOMAIN f \cup {k} |-> IF x = k THEN v ELSE f[x]]
Drop(f, k)   == [x \in DOMAIN f \ {k} |-> f[x]]

RECURSIVE SumSizes(_, _)
SumSizes(f, S) ==
    IF S = {} THEN 0
    ELSE LET p == CHOOSE x \in S : TRUE IN f[p].size + SumSizes(f, S \ {p})

TotalSize == SumSizes(files, DOMAIN files)

\* ------------------------------------------------------- keyed mutex (spec 4.1)
\* lock, first half: under the global lock find-or-create the record and
\* increment its refcount.
KmRegister(tbl, k) ==
    IF k \in DOMAIN tbl
    THEN [tbl EXCEPT ![k].refcount = @ + 1]
    ELSE Put(tbl, k, [owner |-> None, refcount |-> 1])

\* Mutant: one mutex for all keys.
KmCanAcquireGlobal(tbl, k) ==
    k \in DOMAIN tbl /\ \A j \in DOMAIN tbl : tbl[j].owner = None

\* lock, second half: inner_mutex.Lock() returns only when the inner mutex of
\* this key is free.
KmCanAcquire(tbl, k) == k \in DOMAIN tbl /\ tbl[k].owner = None

KmAcquire(tbl, k, c) == [tbl EXCEPT ![k].owner = c]

\* Mutant: the record is kept when its refcount reaches zero.
KmUnlockKeep(tbl, k) ==
    [tbl EXCEPT ![k].owner = None, ![k].refcount = @ - 1]

\* unlock: release inner_mutex, then under the global lock decrement the
\* refcount and drop the record when it reaches zero.  The decrement
\* commutes with every other table operation, so unlock is one step.
KmUnlock(tbl, k) ==
    IF tbl[k].refcount = 1
    THEN Drop(tbl, k)
    ELSE [tbl EXCEPT ![k].owner = None, ![k].refcount = @ - 1]

\* --------------------------------------------------- handle registry (spec 4.3)
\* MinFS.Acquire: a fresh handle id, entry (id, cachePath) inserted.
Acquire(fds, h, p) == Put(fds, h, p)

\* Mutant: release removes by path, every entry of the handle's cache path.
ReleaseByPath(fds, h) ==
    [g \in {x \in DOMAIN fds : fds[x] # fds[h]} |-> fds[g]]

\* release: the entry of the handle is removed.
Release(fds, h) == Drop(fds, h)

\* Mutant: "used = (cachePath == item.Path)", the last entry scanned decides.
InUseLast(fds, p) ==
    /\ DOMAIN fds # {}
    /\ fds[CHOOSE h \in DOMAIN fds : \A g \in DOMAIN fds : g <= h] = p

\* DeleteUntilQuota's scan of mfs.openfds under mfs.m.
InUse(fds, p) == \E h \in DOMAIN fds : fds[h] = p

\* ------------------------------------------------------------------ Init
NoReq  == [bucket |-> None, key |-> None, etag |-> None, trunc |-> FALSE,
           path |-> None, fh |-> 0, peer |-> FALSE]
NoEv   == [items |-> <<>>, i |-> 0, quota |-> 0, used |-> FALSE]
NoLast == [op |-> None, name |-> None, res |-> None, listed |-> FALSE,
           n |-> 0]
NoLock == [by |-> None, h |-> 0]
NoTick == [ran |-> FALSE, total |-> 0, removed |-> {}, skipped |-> {},
           quiet |-> FALSE]

\* The state after construction for a given cache size limit.
InitWith(q) ==
    /\ quota = q
    /\ etag = [k \in Keys |-> "E1"]
    /\ files = Empty
    /\ openfds = Empty
    /\ nextfd = 1
    /\ live = {}
    /\ km = Empty
    /\ opc = [t \in Tasks |-> "idle"]
    /\ oreq = [t \in Tasks |-> NoReq]
    /\ epc = "sleep"
    /\ ev = NoEv
    /\ now = 0
    /\ nOpens = 0
    /\ nTicks = 0
    /\ tick = NoTick
    /\ nFetched = [p \in Paths |-> 0]
    /\ nRemoved = [p \in Paths |-> 0]
    /\ db = Empty
    /\ scanned = FALSE
    /\ last = NoLast
    /\ m = NoLock

Init == \E q \in Quotas : InitWith(q)

\* The state after construction over a cache directory that still holds the
\* files of an earlier mount: every object of the bucket is cached, the clock
\* reads the time of the youngest file.
InitWarm ==
    /\ quota = 3
    /\ etag = [k \in Keys |-> "E1"]
    /\ files = [p \in {cacheAllocate(k, "E1") : k \in Keys} |->
                  [size |-> ObjSize(CHOOSE k \in Keys : cacheAllocate(k, "E1") = p),
                   mtime |-> 0]]
    /\ openfds = Empty
    /\ nextfd = 1
    /\ live = {}
    /\ km = Empty
    /\ opc = [t \in Tasks |-> "idle"]
    /\ oreq = [t \in Tasks |-> NoReq]
    /\ epc = "sleep"
    /\ ev = NoEv
    /\ now = 0
    /\ nOpens = 0
    /\ nTicks = 0
    /\ tick = NoTick
    /\ nFetched = [p \in Paths |-> 0]
    /\ nRemoved = [p \in Paths |-> 0]
    /\ db = Empty
    /\ scanned = FALSE
    /\ last = NoLast
    /\ m = NoLock

\* time.Now(): the clock has not moved since the last reading, or it has.
Times == {ts \in {now, now + 1} : ts <= MaxTime}

\* ------------------------------------------------------------- File.Open
\* Mutant: the error of StatObject is not looked at.
StatFoundAlways(store, key) == TRUE

\* cacheAllocate: StatObject answers without error.
StatFound(store, key) == key \in DOMAIN store

\* object.ETag of the ObjectInfo StatObject returned (the zero value on error).
ObjectETag(store, key) == IF key \in DOMAIN store THEN store[key] ELSE ""

\* Mutant: the os.Chtimes call of cacheSave left out.
ChtimesNot(f, p, ts) == f

\* os.Chtimes(cachePath, now, now)
Chtimes(f, p, ts) == [f EXCEPT ![p].mtime = ts]

\* File.FullPath: the path of the file below the mount point, the bucket
\* first, then the object key.
FileFullPath(b, key) == <<b, key>>

\* File.Bucket: the first segment of the full path.
Bucket(fp) == fp[1]

\* File.ObjectPath: the full path without the bucket and its slash.
ObjectPath(fp) == fp[2]

\* The objects StatObject sees in a bucket: the other bucket holds one object
\* that has the key and the ETag of an object of the main bucket.
StoreOf(b) == IF b = MainBucket THEN etag ELSE [k \in {"a"} |-> "E1"]

\* Open of a file of bucket b up to the point where km.Lock blocks:
\* cacheAllocate (StatObject, the cache path from key and ETag), then the
\* first half of km.Lock.
OpenStartIn(t, b) ==
    /\ opc[t] = "idle"
    /\ nOpens < MaxOpens
    /\ nOpens' = nOpens + 1
    /\ tick' = [tick EXCEPT !.quiet = FALSE]
    /\ \E fp \in {FileFullPath(b, k) : k \in Keys \cup {Missing}},
          trunc \in BOOLEAN :
          LET store == StoreOf(Bucket(fp))
              key   == ObjectPath(fp)
          IN
          IF ~StatFound(store, key)
          THEN \* StatObject: no such object -> ENOENT
               /\ trunc = FALSE
               /\ last' = [op |-> "Open", name |-> key, res |-> "ENOENT",
                            listed |-> FALSE, n |-> nOpens + 1]
               /\ UNCHANGED <<opc, oreq, km>>
          ELSE LET e    == ObjectETag(store, key)
                   path == cacheAllocate(key, e)
               IN
               /\ oreq' = [oreq EXCEPT ![t] =
                             [bucket |-> Bucket(fp), key |-> key, etag |-> e,
                              trunc |-> trunc, path |-> path, fh |-> 0,
                              peer |-> FALSE]]
               /\ last' = last
               /\ km' = KmRegister(km, path)
               /\ opc' = [opc EXCEPT ![t] = "wait"]
    /\ UNCHANGED <<dirVars, m>>
    /\ UNCHANGED <<quota, etag, files, openfds, nextfd, live, epc, ev, now,
                   nTicks, nFetched, nRemoved>>

\* Open of a file of the main bucket.
OpenStart(t) == OpenStartIn(t, MainBucket)

\* Mutant: Open goes on without waiting for the key.
OpenNotLocked(t) ==
    /\ opc[t] = "wait"
    /\ opc' = [opc EXCEPT ![t] = "save"]
    /\ UNCHANGED <<dirVars, last, m>>
    /\ UNCHANGED <<quota, etag, files, openfds, nextfd, live, km, oreq, epc, ev,
                   now, nOpens, nTicks, tick, nFetched, nRemoved>>

\* km.Lock(cachePath) returns: the task owns the key.
OpenLocked(t) ==
    /\ opc[t] = "wait"
    /\ KmCanAcquire(km, oreq[t].path)
    /\ km' = KmAcquire(km, oreq[t].path, t)
    /\ opc' = [opc EXCEPT ![t] = "save"]
    /\ UNCHANGED <<dirVars, last, m>>
    /\ UNCHANGED <<quota, etag, files, openfds, nextfd, live, oreq, epc, ev,
                   now, nOpens, nTicks, tick, nFetched, nRemoved>>

\* Mutant: cacheSave returns nil without calling FGetObject.
SaveNextNever(present, trunc) == "acquire"

\* Mutant: no os.Stat of the cache path, the object is fetched every time.
SaveNextAlways(present, trunc) ==
    IF trunc THEN "acquire" ELSE "fetch"

\* cacheSave up to the call of FGetObject.
SaveNext(present, trunc) ==
    IF present \/ trunc THEN "acquire" ELSE "fetch"

OpenCacheSave(t) ==
    LET r == oreq[t] IN
    /\ opc[t] = "save"
    /\ IF Exists(r.path)
       THEN \E ts \in Times :                              \* os.Chtimes
               /\ now' = ts
               /\ files' = Chtimes(files, r.path, ts)
       ELSE UNCHANGED <<now, files>>
    /\ opc' = [opc EXCEPT ![t] = SaveNext(Exists(r.path), r.trunc)]
    /\ UNCHANGED <<dirVars, last, m>>
    /\ UNCHANGED <<quota, etag, openfds, nextfd, live, km, oreq, epc, ev,
                   nOpens, nTicks, tick, nFetched, nRemoved>>

\* FGetObject returns without error: the object is in the cache file.
OpenFetchDone(t) ==
    LET r == oreq[t] IN
    /\ opc[t] = "fetch"
    /\ \E ts \in Times :
          /\ now' = ts
          /\ files' = Put(files, r.path, [size |-> ObjSize(r.key), mtime |-> ts])
    /\ nFetched' = [nFetched EXCEPT ![r.path] = @ + 1]
    /\ opc' = [opc EXCEPT ![t] = "acquire"]
    /\ oreq' = [u \in Tasks |->
                 IF u # t /\ opc[u] # "idle" /\ oreq[u].path = r.path
                 THEN [oreq[u] EXCEPT !.peer = TRUE]
                 ELSE oreq[u]]
    /\ UNCHANGED <<dirVars, last, m>>
    /\ UNCHANGED <<quota, etag, openfds, nextfd, live, km, epc, ev,
                   nOpens, nTicks, tick, nRemoved>>

\* Mutant: the error return of cacheSave without the deferred unlock.
OpenFetchFailLocked(t) ==
    /\ opc[t] = "fetch"
    /\ opc' = [opc EXCEPT ![t] = "idle"]
    /\ oreq' = [oreq EXCEPT ![t] = NoReq]
    /\ UNCHANGED <<dirVars, last, m>>
    /\ UNCHANGED <<quota, etag, files, openfds, nextfd, live, km, epc, ev, now,
                   nOpens, nTicks, tick, nFetched, nRemoved>>

\* FGetObject returns an error: Open returns it, the deferred unlock runs.
OpenFetchFail(t) ==
    /\ opc[t] = "fetch"
    /\ km' = KmUnlock(km, oreq[t].path)
    /\ opc' = [opc EXCEPT ![t] = "idle"]
    /\ oreq' = [oreq EXCEPT ![t] = NoReq]
    /\ UNCHANGED <<dirVars, last, m>>
    /\ UNCHANGED <<quota, etag, files, openfds, nextfd, live, epc, ev, now,
                   nOpens, nTicks, tick, nFetched, nRemoved>>

\* fh, err := f.mfs.Acquire(f, cachePath)
OpenAcquire(t) ==
    /\ opc[t] = "acquire"
    /\ openfds' = Acquire(openfds, nextfd, oreq[t].path)
    /\ nextfd' = nextfd + 1
    /\ oreq' = [oreq EXCEPT ![t].fh = nextfd]
    /\ opc' = [opc EXCEPT ![t] = "openfile"]
    /\ UNCHANGED <<dirVars, last, m>>
    /\ UNCHANGED <<quota, etag, files, live, km, epc, ev, now, nOpens, nTicks,
                   tick, nFetched, nRemoved>>

\* os.OpenFile(cachePath, req.Flags, mode) and the return of Open.  The kernel
\* never passes O_CREAT to a FUSE open, so an absent file fails with ENOENT;
\* O_TRUNC cuts a present file to length zero.
OpenFile(t) ==
    LET r == oreq[t] IN
    /\ opc[t] = "openfile"
    /\ IF Exists(r.path)
       THEN /\ live' = live \cup {r.fh}
            /\ IF r.trunc
               THEN \E ts \in Times :
                       /\ now' = ts
                       /\ files' = [files EXCEPT ![r.path] =
                                       [size |-> 0, mtime |-> ts]]
               ELSE UNCHANGED <<now, files>>
       ELSE UNCHANGED <<live, files, now>>
    /\ km' = KmUnlock(km, r.path)                         \* defer unlock()
    /\ opc' = [opc EXCEPT ![t] = "idle"]
    /\ oreq' = [oreq EXCEPT ![t] = NoReq]
    /\ UNCHANGED <<dirVars, last, m>>
    /\ UNCHANGED <<quota, etag, openfds, nextfd, epc, ev, nOpens, nTicks,
                   tick, nFetched, nRemoved>>

\* Mutant: release also unlinks the cache file of the handle.
ReleaseAndRemove(h) ==
    /\ h \in live
    /\ live' = live \ {h}
    /\ openfds' = Release(openfds, h)
    /\ files' = Drop(files, openfds[h])
    /\ UNCHANGED <<dirVars, last, m>>
    /\ UNCHANGED <<quota, etag, nextfd, km, opc, oreq, epc, ev, now,
                   nOpens, nTicks, tick, nFetched, nRemoved>>

\* FUSE release of a handle a successful Open returned.
ReleaseHandle(h) ==
    /\ h \in live
    /\ live' = live \ {h}
    /\ openfds' = Release(openfds, h)
    /\ UNCHANGED <<dirVars, last, m>>
    /\ UNCHANGED <<quota, etag, files, nextfd, km, opc, oreq, epc, ev, now,
                   nOpens, nTicks, tick, nFetched, nRemoved>>

\* ------------------------------------------------------------- cache.go
\* DirSize: one CacheItem per *.fcache file, sorted by ModTime with
\* sort.Slice, which leaves the order of equal mtimes open.
Item(f, p) == [path |-> p, size |-> f[p].size, mtime |-> f[p].mtime]

\* Mutant: the comparison of sort.Slice turned around (After for Before).
SortedNewestFirst(s) ==
    \A i, j \in 1..Len(s) : i < j => s[i].mtime >= s[j].mtime

Sorted(s) == \A i, j \in 1..Len(s) : i < j => s[i].mtime <= s[j].mtime

DirSize(f) ==
    LET D == DOMAIN f
        n == Cardinality(D)
    IN  {s \in [1..n -> {Item(f, p) : p \in D}] :
            /\ \A i, j \in 1..n : i # j => s[i] # s[j]
            /\ Sorted(s)}

\* Mutant: the item is removed whatever the scan found.
RemovesAlways(used) == TRUE

\* The "used" decision of DeleteUntilQuota for one item: remove unless used.
Removes(used) == ~used

\* Mutant: "if quota <= 0 { break }".
StopsAtZero(q) == q <= 0

\* Loop control after unlock(): break when quota < 0, else the next item.
Stops(q) == q < 0

\* Head of the for loop over items from position i on: either the loop is
\* over (back to the monitor's timed wait) or km.Lock registers the item.
LoopFrom(e) ==
    IF e.i > Len(e.items)
    THEN /\ epc' = "sleep"
         /\ ev' = NoEv
         /\ km' = km
    ELSE /\ epc' = "wait"
         /\ ev' = e
         /\ km' = KmRegister(km, e.items[e.i].path)

\* Mutant: "size < MAX_SIZE" for "size <= MAX_SIZE".
OverloadStrict(size, max) == ~(size < max)

\* Whether the monitor calls DeleteUntilQuota for a walk total.
Overload(size, max) == ~(size <= max)

\* One timer expiry of MonitorCache: DirSize, the comparison with MAX_SIZE,
\* and on overload the entry into DeleteUntilQuota(items, size - MAX_SIZE).
MonitorTick ==
    /\ epc = "sleep"
    /\ nTicks < MaxTicks
    /\ nTicks' = nTicks + 1
    /\ \E items \in DirSize(files) :
         LET size == TotalSize IN
         /\ tick' = [ran |-> TRUE, total |-> size, removed |-> {},
                     skipped |-> {},
                     quiet |-> live = {} /\ \A t \in Tasks : opc[t] = "idle"]
         /\ IF Overload(size, quota)
            THEN LoopFrom([items |-> items, i |-> 1, quota |-> size - quota,
                           used |-> FALSE])
            ELSE UNCHANGED <<epc, ev, km>>
    /\ UNCHANGED <<dirVars, last, m>>
    /\ UNCHANGED <<quota, etag, files, openfds, nextfd, live, opc, oreq, now,
                   nOpens, nFetched, nRemoved>>

\* Mutant: a try-lock; an item whose key is held is passed over.
EvLockedOrSkip ==
    LET p == ev.items[ev.i].path
        next == [ev EXCEPT !.i = @ + 1]
    IN
    /\ epc = "wait"
    /\ IF KmCanAcquire(km, p)
       THEN /\ km' = KmAcquire(km, p, Evictor)
            /\ epc' = "check"
            /\ ev' = ev
       ELSE LET back == [km EXCEPT ![p].refcount = @ - 1] IN
            IF next.i > Len(next.items)
            THEN /\ epc' = "sleep"
                 /\ ev' = NoEv
                 /\ km' = back
            ELSE /\ epc' = "wait"
                 /\ ev' = next
                 /\ km' = KmRegister(back, next.items[next.i].path)
    /\ UNCHANGED <<dirVars, last, m>>
    /\ UNCHANGED <<quota, etag, files, openfds, nextfd, live, opc, oreq,
                   now, nOpens, nTicks, tick, nFetched, nRemoved>>

\* km.Lock(item.Path) returns.
EvLocked ==
    /\ epc = "wait"
    /\ KmCanAcquire(km, ev.items[ev.i].path)
    /\ km' = KmAcquire(km, ev.items[ev.i].path, Evictor)
    /\ epc' = "check"
    /\ UNCHANGED <<dirVars, last, m>>
    /\ UNCHANGED <<quota, etag, files, openfds, nextfd, live, opc, oreq, ev,
                   now, nOpens, nTicks, tick, nFetched, nRemoved>>

\* The scan of mfs.openfds between mfs.m.Lock() and mfs.m.Unlock().
EvCheck ==
    /\ epc = "check"
    /\ ev' = [ev EXCEPT !.used = InUse(openfds, ev.items[ev.i].path)]
    /\ epc' = "remove"
    /\ UNCHANGED <<dirVars, last, m>>
    /\ UNCHANGED <<quota, etag, files, openfds, nextfd, live, km, opc, oreq,
                   now, nOpens, nTicks, tick, nFetched, nRemoved>>

\* Mutant: the file is stat-ed again before os.Remove, and an item whose
\* file was touched since the walk is left alone.
EvRemoveUntouched ==
    LET it == ev.items[ev.i] IN
    /\ epc = "remove"
    /\ IF Removes(ev.used)
          /\ (Exists(it.path) => files[it.path].mtime <= it.mtime)
       THEN /\ files' = IF Exists(it.path) THEN Drop(files, it.path) ELSE files
            /\ ev' = [ev EXCEPT !.quota = @ - it.size]
            /\ tick' = [tick EXCEPT !.removed = @ \cup {it.path}]
            /\ nRemoved' = [nRemoved EXCEPT ![it.path] =
                              IF Exists(it.path) THEN @ + 1 ELSE @]
       ELSE /\ tick' = [tick EXCEPT !.skipped = @ \cup {it.path}]
            /\ UNCHANGED <<files, ev, nRemoved>>
    /\ epc' = "unlock"
    /\ UNCHANGED <<dirVars, last, m>>
    /\ UNCHANGED <<quota, etag, openfds, nextfd, live, km, opc, oreq, now,
                   nOpens, nTicks, nFetched>>

\* if !used { os.Remove(item.Path); quota -= item.Size }
EvRemove ==
    LET it == ev.items[ev.i] IN
    /\ epc = "remove"
    /\ IF Removes(ev.used)
       THEN /\ files' = IF Exists(it.path) THEN Drop(files, it.path) ELSE files
            /\ ev' = [ev EXCEPT !.quota = @ - it.size]
            /\ tick' = [tick EXCEPT !.removed = @ \cup {it.path}]
            /\ nRemoved' = [nRemoved EXCEPT ![it.path] =
                              IF Exists(it.path) THEN @ + 1 ELSE @]
       ELSE /\ tick' = [tick EXCEPT !.skipped = @ \cup {it.path}]
            /\ UNCHANGED <<files, ev, nRemoved>>
    /\ epc' = "unlock"
    /\ UNCHANGED <<dirVars, last, m>>
    /\ UNCHANGED <<quota, etag, openfds, nextfd, live, km, opc, oreq, now,
                   nOpens, nTicks, nFetched>>

\* unlock(), then "if quota < 0 { break }", then the next iteration.
EvUnlock ==
    /\ epc = "unlock"
    /\ LET unlocked == KmUnlock(km, ev.items[ev.i].path)
           next == [ev EXCEPT !.i = @ + 1, !.used = FALSE]
       IN  IF Stops(ev.quota) \/ next.i > Len(next.items)
           THEN /\ epc' = "sleep"
                /\ ev' = NoEv
                /\ km' = unlocked
           ELSE /\ epc' = "wait"
                /\ ev' = next
                /\ km' = KmRegister(unlocked, next.items[next.i].path)
    /\ UNCHANGED <<dirVars, last, m>>
    /\ UNCHANGED <<quota, etag, files, openfds, nextfd, live, opc, oreq, now,
                   nOpens, nTicks, tick, nFetched, nRemoved>>

\* ------------------------------------------- faults of the local file system
\* Mutant: the err of DirSize is not looked at.
WalkFailedIgnored(err) == FALSE

\* "if err != nil" after DirSize in MonitorCache.
WalkFailed(err) == err

\* One timer expiry of MonitorCache whose filepath.Walk returns an error:
\* DirSize hands back the error with the items and the total of the files
\* walked before it.
MonitorWalkError ==
    /\ epc = "sleep"
    /\ nTicks < MaxTicks
    /\ nTicks' = nTicks + 1
    /\ last' = [op |-> "Tick", name |-> None, res |-> "walk error",
                 listed |-> FALSE, n |-> nTicks + 1]
    /\ \E S \in SUBSET DOMAIN files :
         \E items \in DirSize([p \in S |-> files[p]]) :
           LET size == SumSizes(files, S) IN
           /\ tick' = [NoTick EXCEPT !.total = size]
           /\ IF ~WalkFailed(TRUE) /\ Overload(size, quota)
              THEN LoopFrom([items |-> items, i |-> 1, quota |-> size - quota,
                             used |-> FALSE])
              ELSE UNCHANGED <<epc, ev, km>>
    /\ UNCHANGED <<dirVars, m>>
    /\ UNCHANGED <<quota, etag, files, openfds, nextfd, live, opc, oreq, now,
                   nOpens, nFetched, nRemoved>>

\* "if !used { os.Remove(item.Path); quota -= item.Size }" when os.Remove
\* returns an error: the return value is dropped, the file stays, the size
\* is subtracted.
EvRemoveFail ==
    LET it == ev.items[ev.i] IN
    /\ epc = "remove"
    /\ Removes(ev.used)
    /\ Exists(it.path)
    /\ ev' = [ev EXCEPT !.quota = @ - it.size]
    /\ last' = [op |-> "os.Remove", name |-> it.path, res |-> "error",
                 listed |-> FALSE, n |-> nTicks]
    /\ epc' = "unlock"
    /\ UNCHANGED <<dirVars, m>>
    /\ UNCHANGED <<quota, etag, files, openfds, nextfd, live, km, opc, oreq,
                   now, nOpens, nTicks, tick, nFetched, nRemoved>>

\* ------------------------------------------- the registry lock, step by step
\* MinFS.Acquire, first half: mfs.m.Lock() returns.
AcquireLock(t) ==
    /\ opc[t] = "acquire"
    /\ m = NoLock
    /\ m' = [by |-> t, h |-> 0]
    /\ UNCHANGED <<dirVars, last>>
    /\ UNCHANGED <<quota, etag, files, openfds, nextfd, live, km, opc, oreq,
                   epc, ev, now, nOpens, nTicks, tick, nFetched, nRemoved>>

\* MinFS.Acquire, second half: the entry is inserted, mfs.m.Unlock().
AcquireInsert(t) ==
    /\ opc[t] = "acquire"
    /\ m.by = t
    /\ openfds' = Acquire(openfds, nextfd, oreq[t].path)
    /\ nextfd' = nextfd + 1
    /\ oreq' = [oreq EXCEPT ![t].fh = nextfd]
    /\ opc' = [opc EXCEPT ![t] = "openfile"]
    /\ m' = NoLock
    /\ UNCHANGED <<dirVars, last>>
    /\ UNCHANGED <<quota, etag, files, live, km, epc, ev, now, nOpens, nTicks,
                   tick, nFetched, nRemoved>>

\* Release of a handle, first half: mfs.m.Lock() returns.
ReleaseLock(h) ==
    /\ h \in live
    /\ m = NoLock
    /\ m' = [by |-> "release", h |-> h]
    /\ UNCHANGED <<dirVars, last>>
    /\ UNCHANGED <<quota, etag, files, openfds, nextfd, live, km, opc, oreq,
                   epc, ev, now, nOpens, nTicks, tick, nFetched, nRemoved>>

\* Release of a handle, second half: the entry is removed, mfs.m.Unlock().
ReleaseRemove(h) ==
    /\ m = [by |-> "release", h |-> h]
    /\ live' = live \ {h}
    /\ openfds' = Release(openfds, h)
    /\ m' = NoLock
    /\ UNCHANGED <<dirVars, last>>
    /\ UNCHANGED <<quota, etag, files, nextfd, km, opc, oreq, epc, ev, now,
                   nOpens, nTicks, tick, nFetched, nRemoved>>

\* DeleteUntilQuota: mfs.m.Lock() returns.
EvScanLock ==
    /\ epc = "check"
    /\ m = NoLock
    /\ m' = [by |-> Evictor, h |-> 0]
    /\ UNCHANGED <<dirVars, last>>
    /\ UNCHANGED <<quota, etag, files, openfds, nextfd, live, km, opc, oreq,
                   epc, ev, now, nOpens, nTicks, tick, nFetched, nRemoved>>

\* Mutant: the scan returns without mfs.m.Unlock().
EvScanKeepLock ==
    /\ epc = "check"
    /\ m.by = Evictor
    /\ ev' = [ev EXCEPT !.used = InUse(openfds, ev.items[ev.i].path)]
    /\ epc' = "remove"
    /\ UNCHANGED <<dirVars, last, m>>
    /\ UNCHANGED <<quota, etag, files, openfds, nextfd, live, km, opc, oreq,
                   now, nOpens, nTicks, tick, nFetched, nRemoved>>

\* DeleteUntilQuota: the scan of mfs.openfds, then mfs.m.Unlock().
EvScan ==
    /\ epc = "check"
    /\ m.by = Evictor
    /\ ev' = [ev EXCEPT !.used = InUse(openfds, ev.items[ev.i].path)]
    /\ epc' = "remove"
    /\ m' = NoLock
    /\ UNCHANGED <<dirVars, last>>
    /\ UNCHANGED <<quota, etag, files, openfds, nextfd, live, km, opc, oreq,
                   now, nOpens, nTicks, tick, nFetched, nRemoved>>

\* One timer expiry of MonitorCache, first half: DirSize and the comparison
\* of the total with MAX_SIZE.
MonitorWalk ==
    /\ epc = "sleep"
    /\ nTicks < MaxTicks
    /\ nTicks' = nTicks + 1
    /\ \E items \in DirSize(files) :
         LET size == TotalSize IN
         /\ tick' = [ran |-> TRUE, total |-> size, removed |-> {},
                     skipped |-> {},
                     quiet |-> live = {} /\ \A t \in Tasks : opc[t] = "idle"]
         /\ ev' = [items |-> items, i |-> 0, quota |-> size - quota,
                   used |-> FALSE]
    /\ epc' = "log"
    /\ UNCHANGED <<dirVars, last, m>>
    /\ UNCHANGED <<quota, etag, files, openfds, nextfd, live, km, opc, oreq,
                   now, nOpens, nFetched, nRemoved>>

\* Second half: the log line, which evaluates len(mfs.openfds) with mfs.m
\* not taken, and on overload the entry into DeleteUntilQuota.
MonitorLog ==
    /\ epc = "log"
    /\ IF Overload(tick.total, quota)
       THEN LoopFrom([ev EXCEPT !.i = 1])
       ELSE /\ epc' = "sleep"
            /\ ev' = NoEv
            /\ km' = km
    /\ UNCHANGED <<dirVars, last, m>>
    /\ UNCHANGED <<quota, etag, files, openfds, nextfd, live, opc, oreq, now,
                   nOpens, nTicks, tick, nFetched, nRemoved>>

\* ------------------------------------- cache.go, src/fs/cache.go:178-207
\* MAX_SIZE := float64(2): the size limit of that version of the monitor.
MaxSizeDefer == 2

RECURSIVE KmUnlockAll(_, _)
KmUnlockAll(tbl, K) ==
    IF K = {} THEN tbl
    ELSE LET k == CHOOSE x \in K : TRUE IN KmUnlockAll(KmUnlock(tbl, k), K \ {k})

\* That version of DeleteUntilQuota has "defer unlock()" inside the loop:
\* after an item nothing is unlocked, and the unlocks of all items visited
\* run when the function returns.
EvUnlockDeferred ==
    /\ epc = "unlock"
    /\ LET next == [ev EXCEPT !.i = @ + 1, !.used = FALSE]
       IN  IF Stops(ev.quota) \/ next.i > Len(next.items)
           THEN /\ epc' = "sleep"
                /\ ev' = NoEv
                /\ km' = KmUnlockAll(km, {ev.items[j].path : j \in 1..ev.i})
           ELSE /\ epc' = "wait"
                /\ ev' = next
                /\ km' = KmRegister(km, next.items[next.i].path)
    /\ UNCHANGED <<dirVars, last, m>>
    /\ UNCHANGED <<quota, etag, files, openfds, nextfd, live, opc, oreq, now,
                   nOpens, nTicks, tick, nFetched, nRemoved>>

\* ------------------------------------------------- dir.go, src/fs/dir.go
\* Names a request on the root directory can carry: the objects of the
\* bucket and one name the bucket does not hold at first.
NewName == "n"
Names   == Keys \cup {NewName}

\* File.FullPath() of a file of the root directory: path.Join of the
\* directory paths up to the root (all empty) and the name.
FullPath(name) == name

\* Dir.scan past the needsScan test: ListObjects of the prefix, storeFile
\* for each object listed (an entry there already is kept), and the purge of
\* the entries no longer listed.
Scan(store, bucket) ==
    [k \in DOMAIN store |-> IF k \in DOMAIN bucket THEN bucket[k] ELSE "file"]

Answer(op, name, res) ==
    [op |-> op, name |-> name, res |-> res, listed |-> name \in DOMAIN etag,
     n |-> last.n + 1]

\* Dir.ReadDirAll: dir.scanned = false, the scan, the entries of the bucket.
DirReadDirAll ==
    /\ last.n < MaxDirOps
    /\ db' = Scan(etag, db)
    /\ scanned' = TRUE
    /\ last' = Answer("ReadDirAll", None, "ok")
    /\ UNCHANGED m
    /\ UNCHANGED <<quota, etag, files, openfds, nextfd, live, km, opc, oreq,
                   epc, ev, now, nOpens, nTicks, tick, nFetched, nRemoved>>

\* Dir.Lookup: dir.scan, which returns at once unless needsScan(), then the
\* entry of the name in the meta bucket, ENOENT without one.
DirLookup(name) ==
    LET bucket == IF scanned THEN db ELSE Scan(etag, db) IN
    /\ last.n < MaxDirOps
    /\ db' = bucket
    /\ scanned' = TRUE
    /\ last' = Answer("Lookup", name,
                       IF name \in DOMAIN bucket THEN "found" ELSE "ENOENT")
    /\ UNCHANGED m
    /\ UNCHANGED <<quota, etag, files, openfds, nextfd, live, km, opc, oreq,
                   epc, ev, now, nOpens, nTicks, tick, nFetched, nRemoved>>

\* Dir.Mkdir: the new Dir is stored in the meta bucket of its parent.
DirMkdir(name) ==
    /\ last.n < MaxDirOps
    /\ db' = Put(db, name, "dir")
    /\ last' = Answer("Mkdir", name, "ok")
    /\ UNCHANGED m
    /\ UNCHANGED <<quota, etag, files, openfds, nextfd, live, km, opc, oreq,
                   epc, ev, now, nOpens, nTicks, tick, nFetched, nRemoved,
                   scanned>>

\* Dir.Remove: ENOENT without an entry in the meta bucket; else the entry is
\* deleted and api.RemoveObject removes the object from the store.
DirRemove(name) ==
    /\ last.n < MaxDirOps
    /\ IF name \in DOMAIN db
       THEN /\ db' = Drop(db, name)
            /\ etag' = Drop(etag, name)
            /\ last' = Answer("Remove", name, "ok")
       ELSE /\ last' = Answer("Remove", name, "ENOENT")
            /\ UNCHANGED <<db, etag>>
    /\ UNCHANGED m
    /\ UNCHANGED <<quota, files, openfds, nextfd, live, km, opc, oreq,
                   epc, ev, now, nOpens, nTicks, tick, nFetched, nRemoved,
                   scanned>>

\* Dir.Create: the File is stored in the meta bucket and
\* mfs.Acquire(&f, f.FullPath()) registers a handle under the full path of
\* the file.  The file os.OpenFile creates at NewCachePath() is left out:
\* NewCachePath is not part of the sources.
DirCreate(name) ==
    /\ last.n < MaxDirOps
    /\ db' = Put(db, name, IF name \in DOMAIN db THEN db[name] ELSE "file")
    /\ openfds' = Acquire(openfds, nextfd, FullPath(name))
    /\ nextfd' = nextfd + 1
    /\ live' = live \cup {nextfd}
    /\ last' = Answer("Create", name, "ok")
    /\ UNCHANGED m
    /\ UNCHANGED <<quota, etag, files, km, opc, oreq, epc, ev, now, nOpens,
                   nTicks, tick, nFetched, nRemoved, scanned>>

\* Dir.Rename of a file: an error without an entry of the old name; else the
\* entry goes to the new name and the move operation handed to mfs.sync
\* moves the object in the store (ENOENT when the store has no such object).
DirRename(old, new) ==
    /\ last.n < MaxDirOps
    /\ old # new
    /\ IF old \in DOMAIN db /\ db[old] = "file" /\ old \in DOMAIN etag
       THEN /\ db' = Put(Drop(db, old), new, "file")
            /\ etag' = Put(Drop(etag, old), new, etag[old])
            /\ last' = Answer("Rename", old, "ok")
       ELSE /\ last' = Answer("Rename", old, "ENOENT")
            /\ UNCHANGED <<db, etag>>
    /\ UNCHANGED m
    /\ UNCHANGED <<quota, files, openfds, nextfd, live, km, opc, oreq,
                   epc, ev, now, nOpens, nTicks, tick, nFetched, nRemoved,
                   scanned>>

\* ----------------------------------------------------------- environment
\* Another client of the store puts an object or deletes one.
StorePut(k) ==
    /\ k \notin DOMAIN etag
    /\ etag' = Put(etag, k, "E1")
    /\ UNCHANGED <<dirVars, last, m>>
    /\ UNCHANGED <<quota, files, openfds, nextfd, live, km, opc, oreq, epc, ev,
                   now, nOpens, nTicks, tick, nFetched, nRemoved>>

StoreDelete(k) ==
    /\ k \in DOMAIN etag
    /\ etag' = Drop(etag, k)
    /\ UNCHANGED <<dirVars, last, m>>
    /\ UNCHANGED <<quota, files, openfds, nextfd, live, km, opc, oreq, epc, ev,
                   now, nOpens, nTicks, tick, nFetched, nRemoved>>

\* The object store reports a new ETag for an object.
StoreUpdate(k) ==
    /\ etag[k] = "E1"
    /\ k = "a"
    /\ etag' = [etag EXCEPT ![k] = "E2"]
    /\ UNCHANGED <<dirVars, last, m>>
    /\ UNCHANGED <<quota, files, openfds, nextfd, live, km, opc, oreq, epc, ev,
                   now, nOpens, nTicks, tick, nFetched, nRemoved>>

Next ==
    \/ \E t \in Tasks : OpenStart(t)
    \/ \E t \in Tasks : OpenLocked(t)
    \/ \E t \in Tasks : OpenCacheSave(t)
    \/ \E t \in Tasks : OpenFetchDone(t)
    \/ \E t \in Tasks : OpenFetchFail(t)
    \/ \E t \in Tasks : OpenAcquire(t)
    \/ \E t \in Tasks : OpenFile(t)
    \/ \E h \in live : ReleaseHandle(h)
    \/ MonitorTick
    \/ EvLocked
    \/ EvCheck
    \/ EvRemove
    \/ EvUnlock

Spec == Init /\ [][Next]_vars

\* The same program mounted with a positive quota.
InitQuota == Init /\ quota > 0

SpecQuota == InitQuota /\ [][Next]_vars

\* The program with the DeleteUntilQuota of src/fs/cache.go:178-207.
NextDefer ==
    \/ \E t \in Tasks : OpenStart(t)
    \/ \E t \in Tasks : OpenLocked(t)
    \/ \E t \in Tasks : OpenCacheSave(t)
    \/ \E t \in Tasks : OpenFetchDone(t)
    \/ \E t \in Tasks : OpenFetchFail(t)
    \/ \E t \in Tasks : OpenAcquire(t)
    \/ \E t \in Tasks : OpenFile(t)
    \/ \E h \in live : ReleaseHandle(h)
    \/ MonitorTick
    \/ EvLocked
    \/ EvCheck
    \/ EvRemove
    \/ EvUnlockDeferred

SpecDefer == InitWith(MaxSizeDefer) /\ [][NextDefer]_vars

\* The requests on the root directory, next to other clients of the store.
NextDir ==
    \/ DirReadDirAll
    \/ \E name \in Names : DirLookup(name)
    \/ \E name \in Names : DirMkdir(name)
    \/ \E name \in Names : DirRemove(name)
    \/ \E name \in Names : DirCreate(name)
    \/ \E old, new \in Names : DirRename(old, new)
    \/ \E k \in Names : StorePut(k)
    \/ \E k \in Names : StoreDelete(k)

SpecDir == InitWith(0) /\ [][NextDir]_vars

\* Listings and lookups only, next to other clients of the store.
NextLookup ==
    \/ DirReadDirAll
    \/ \E name \in Names : DirLookup(name)
    \/ \E k \in Names : StorePut(k)
    \/ \E k \in Names : StoreDelete(k)

SpecLookup == InitWith(0) /\ [][NextLookup]_vars

\* The program, mounted with quota 3, with Opens below two buckets.
NextBuckets == Next \/ \E t \in Tasks : OpenStartIn(t, OtherBucket)

SpecBuckets == InitWith(3) /\ [][NextBuckets]_vars

\* The program, mounted with quota 3, with the steps that take and release
\* the lock of the handle registry apart from the steps they protect.
NextLocks ==
    \/ \E t \in Tasks : OpenStart(t)
    \/ \E t \in Tasks : OpenLocked(t)
    \/ \E t \in Tasks : OpenCacheSave(t)
    \/ \E t \in Tasks : OpenFetchDone(t)
    \/ \E t \in Tasks : OpenFetchFail(t)
    \/ \E t \in Tasks : AcquireLock(t)
    \/ \E t \in Tasks : AcquireInsert(t)
    \/ \E t \in Tasks : OpenFile(t)
    \/ \E h \in live : ReleaseLock(h)
    \/ \E h \in live : ReleaseRemove(h)
    \/ MonitorWalk
    \/ MonitorLog
    \/ EvLocked
    \/ EvScanLock
    \/ EvScan
    \/ EvRemove
    \/ EvUnlock

SpecLocks == InitWith(3) /\ [][NextLocks]_vars

\* The program mounted over a cache directory that is not empty.
SpecWarm == InitWarm /\ [][Next]_vars

\* The program, mounted with quota 3, with walks that can fail.
NextWalk == Next \/ MonitorWalkError

SpecWalk == InitWith(3) /\ [][NextWalk]_vars

\* The program, mounted with quota 3, with removals that can fail.
NextRemove == Next \/ EvRemoveFail

SpecRemove == InitWith(3) /\ [][NextRemove]_vars

\* The same program with an object store whose ETags change.
NextStore == Next \/ \E k \in Keys : StoreUpdate(k)

SpecStore == Init /\ [][NextStore]_vars

\* The changing store under the smallest positive quota of the model, where
\* two cached versions of one object are over the quota.
InitETag == Init /\ quota = 3

SpecETag == InitETag /\ [][NextStore]_vars

\* ===================================================== claims C1 .. C10
InOpenCS  == {"save", "fetch", "acquire", "openfile"}
InEvictCS == {"check", "remove", "unlock"}

\* The item DeleteUntilQuota is working on.
Cur == ev.items[ev.i]
EvBusy == epc # "sleep"

\* Callers inside the critical section of key p.
Holders(p) ==
    {t \in Tasks : opc[t] \in InOpenCS /\ oreq[t].path = p}
    \cup (IF epc \in InEvictCS /\ Cur.path = p THEN {Evictor} ELSE {})

\* Callers blocked inside km.Lock(p).
Waiters(p) ==
    {t \in Tasks : opc[t] = "wait" /\ oreq[t].path = p}
    \cup (IF epc = "wait" /\ Cur.path = p THEN {Evictor} ELSE {})

\* C1: while the registry holds an entry (h, p) placed by a successful Open,
\* the cache file at p exists on disk.
NoDeleteUnderOpen ==
    \A h \in live : h \in DOMAIN openfds /\ Exists(openfds[h])

\* C1 witness: the evictor visited the path of a live handle in this tick and
\* the file is still there.
NoDeleteUnderOpenWitness ==
    \E h \in live : openfds[h] \in tick.skipped /\ Exists(openfds[h])

\* C2 as stated: an Open that overlaps a successful fetch of its own cache
\* path by another Open never fetches itself.
NoDuplicateFetchOriginal ==
    \A t \in Tasks : oreq[t].peer => opc[t] # "fetch"

\* C2 amended: at most one fetch per cache path is in flight, a fetch only
\* starts when the file is absent, a path is fetched at most once more often
\* than the evictor removed its file, and an Open without the truncate flag
\* that is past cacheSave has its file present.
NoDuplicateFetch ==
    /\ \A p \in Paths :
          Cardinality({t \in Tasks : opc[t] = "fetch" /\ oreq[t].path = p}) <= 1
    /\ \A t \in Tasks : opc[t] = "fetch" => ~Exists(oreq[t].path)
    /\ \A p \in Paths : nFetched[p] <= 1 + nRemoved[p]
    /\ \A t \in Tasks :
          (opc[t] \in {"acquire", "openfile"} /\ ~oreq[t].trunc)
             => Exists(oreq[t].path)

\* C2 witness: an Open that overlapped another Open's fetch of the same path
\* found the file present and skipped the fetch.
NoDuplicateFetchWitness ==
    \E t \in Tasks :
        /\ oreq[t].peer /\ ~oreq[t].trunc
        /\ opc[t] = "acquire"
        /\ nFetched[oreq[t].path] = 1
        /\ Exists(oreq[t].path)

\* C3: for every key at most one caller is between the return of
\* km.Lock(key) and its unlock; a caller blocked on a held key stays blocked.
KeyedExclusion ==
    /\ \A p \in Paths : Cardinality(Holders(p)) <= 1
    /\ \A t \in Tasks :
          (opc[t] = "wait" /\ Holders(oreq[t].path) # {}) => ~ENABLED OpenLocked(t)
    /\ (epc = "wait" /\ Holders(Cur.path) # {}) => ~ENABLED EvLocked

\* C3 witness: a task and the evictor contend for one key.
KeyedExclusionWitness ==
    \E t \in Tasks :
        /\ opc[t] = "wait"
        /\ epc \in InEvictCS
        /\ Cur.path = oreq[t].path

\* C4: a caller blocked in km.Lock(k1) can go on whenever nobody holds k1,
\* whoever holds other keys.
KeyedIndependence ==
    /\ \A t \in Tasks :
          (opc[t] = "wait" /\ Holders(oreq[t].path) = {}) => ENABLED OpenLocked(t)
    /\ (epc = "wait" /\ Holders(Cur.path) = {}) => ENABLED EvLocked

\* C4 witness: a task can take k1 while another caller holds k2.
KeyedIndependenceWitness ==
    \E t \in Tasks, p \in Paths :
        /\ opc[t] = "wait"
        /\ p # oreq[t].path
        /\ Holders(p) # {}
        /\ Holders(oreq[t].path) = {}
        /\ ENABLED OpenLocked(t)

QuotaConvergence ==
    (epc = "sleep" /\ tick.ran /\ tick.quiet) => TotalSize <= quota

\* C7: with quota 0 no tick deletes a cache file.
QuotaZeroNoDelete ==
    quota = 0 => (tick.removed = {} /\ \A p \in Paths : nRemoved[p] = 0)

\* C8: an item whose path the registry references is not removed and its size
\* is not subtracted; the pass goes on with the next item.
EvictionRespectsHandles ==
    [][ /\ (epc = "remove" /\ InUse(openfds, Cur.path)) =>
            /\ Exists(Cur.path) => Exists(Cur.path)'
            /\ ev'.quota = ev.quota
        /\ (epc = "unlock" /\ Cur.path \in tick.skipped /\ ev.i < Len(ev.items)
              /\ epc' # epc) =>
            /\ epc' = "wait"
            /\ ev'.i = ev.i + 1
            /\ ev'.quota = ev.quota
      ]_vars

\* C8 witness: the evictor skipped an item in use that is not the last one.
EvictionRespectsHandlesWitness ==
    /\ epc = "unlock"
    /\ Cur.path \in tick.skipped
    /\ InUse(openfds, Cur.path)
    /\ Exists(Cur.path)
    /\ ev.i < Len(ev.items)

\* C9: a tick whose walk total is at most the quota deletes no file.
UnderQuotaNoDelete ==
    (tick.ran /\ tick.total <= quota) => (tick.removed = {} /\ epc = "sleep")

\* C9 witness: a tick found the cache exactly at a positive quota.
UnderQuotaNoDeleteWitness ==
    tick.ran /\ tick.total = quota /\ quota > 0

\* C10: within a tick the items are visited in ascending mtime order of the
\* snapshot, the pass does not go on once the remaining overage is below
\* zero, and when an item was removed every older item of the snapshot was
\* removed too or was in use when visited.
OldestFirst ==
    EvBusy =>
      /\ \A x, y \in 1..Len(ev.items) :
            x < y => ev.items[x].mtime <= ev.items[y].mtime
      /\ \A j \in 1..Len(ev.items) :
            /\ j < ev.i => ev.items[j].path \in tick.removed \cup tick.skipped
            /\ j > ev.i => ev.items[j].path \notin tick.removed \cup tick.skipped
      /\ epc \in {"wait", "check", "remove"} => ev.quota >= 0
      /\ \A x, y \in 1..Len(ev.items) :
            (ev.items[x].path \in tick.removed /\ ev.items[y].mtime < ev.items[x].mtime)
               => ev.items[y].path \in tick.removed \cup tick.skipped

\* C10 witness: two items of different age were both removed in one tick.
OldestFirstWitness ==
    /\ epc = "unlock"
    /\ ev.i = 2
    /\ ev.items[1].mtime < ev.items[2].mtime
    /\ {ev.items[1].path, ev.items[2].path} \subseteq tick.removed

\* ==================================================== claims C11 .. C20
\* The tasks that take a step of File.Open.
Stepping(t) == opc'[t] # opc[t]

\* C11: when cacheSave finds the cache file present, Open does not fetch: the
\* step stamps the file with the time just read and leads to Acquire, the
\* registry still untouched.
WarmOpen ==
    [][ \A t \in Tasks :
          (opc[t] = "save" /\ Stepping(t) /\ Exists(oreq[t].path)) =>
             /\ opc'[t] = "acquire"
             /\ nFetched' = nFetched
             /\ oreq[t].path \in DOMAIN files'
             /\ files'[oreq[t].path].mtime = now'
             /\ files'[oreq[t].path].size = files[oreq[t].path].size
             /\ openfds' = openfds
             /\ oreq[t].fh = 0
      ]_vars

\* C11 witness: an Open found the file another handle still holds open, after
\* the clock had moved on, and is about to register its handle.
WarmOpenWitness ==
    \E t \in Tasks, h \in live :
        /\ opc[t] = "acquire" /\ ~oreq[t].trunc
        /\ openfds[h] = oreq[t].path
        /\ nFetched[oreq[t].path] = 1
        /\ Exists(oreq[t].path)
        /\ files[oreq[t].path].mtime > 0

\* C12: every entry (h, p) of the handle registry has p a cache path whose
\* file is present in the cache directory, and the owner of h holds an open
\* local file descriptor on p.  An Open that has registered its handle and
\* has not come to os.OpenFile yet is not counted against the statement.
OpenFileEntries ==
    \A h \in DOMAIN openfds :
        \/ \E t \in Tasks : opc[t] = "openfile" /\ oreq[t].fh = h
        \/ /\ openfds[h] \in Paths
           /\ Exists(openfds[h])
           /\ h \in live

\* C13: the registry changes in two ways only.  Acquire adds one entry under
\* an id no entry has, and the release of a handle removes the entry of that
\* handle; either leaves every other entry as it is, and no other step of an
\* Open, a release or the evictor changes the registry.  So an Open followed
\* by the release of its handle leaves the entries there were before, next to
\* those that other requests added or removed for their own handles.
OpenReleaseRoundTrip ==
    [][ /\ \A h \in live \ live' :
              /\ h \in DOMAIN openfds
              /\ DOMAIN openfds' = DOMAIN openfds \ {h}
              /\ \A g \in DOMAIN openfds' : openfds'[g] = openfds[g]
        /\ nextfd' # nextfd =>
              /\ nextfd \notin DOMAIN openfds
              /\ DOMAIN openfds' = DOMAIN openfds \cup {nextfd}
              /\ \A g \in DOMAIN openfds : openfds'[g] = openfds[g]
        /\ (live \subseteq live' /\ nextfd' = nextfd) => openfds' = openfds
      ]_vars

\* C13 witness: of two handles Open returned one was released and the other
\* is still open; the registry holds the entry of the open one only.
OpenReleaseRoundTripWitness ==
    /\ nextfd = 3
    /\ \E h \in {1, 2} : live = {h} /\ DOMAIN openfds = {h}
    /\ \A t \in Tasks : opc[t] = "idle"

\* The cache path a step of task t works on.
PathOf(t) == IF opc[t] = "idle" THEN oreq'[t].path ELSE oreq[t].path

Active == {t \in Tasks : opc[t] # "idle"}

\* C15: cacheAllocate gives one path for one (key, ETag), at whatever time
\* the Open runs, and for one key different paths for different ETags: for
\* the Opens under way, and for every key and ETag of the model.
CachePathAllocation ==
    /\ \A t, u \in Active :
          (oreq[t].key = oreq[u].key /\ oreq[t].etag = oreq[u].etag)
             => oreq[t].path = oreq[u].path
    /\ \A t, u \in Active :
          (oreq[t].key = oreq[u].key /\ oreq[t].etag # oreq[u].etag)
             => oreq[t].path # oreq[u].path
    /\ \A k \in Keys : \A e1, e2 \in ETags :
          e1 # e2 => cacheAllocate(k, e1) # cacheAllocate(k, e2)

\* C15 witness: two Opens of one key are under way, resolved under different
\* ETags, each fetching into its own path.
CachePathAllocationWitness ==
    \E t, u \in Active :
        /\ oreq[t].key = oreq[u].key
        /\ oreq[t].etag = "E1" /\ oreq[u].etag = "E2"
        /\ opc[t] = "fetch" /\ opc[u] = "fetch"

\* C17: an Open either is answered ENOENT, for a key the store does not
\* hold, and then changes neither the lock table nor the cache directory,
\* the registry, the fetch counters or the position of any request; or it is
\* for a key the store holds and goes on to km.Lock.
NotFoundOnOpen ==
    [][ nOpens' # nOpens =>
          \/ /\ last'.op = "Open" /\ last'.res = "ENOENT"
             /\ last'.n = nOpens'
             /\ last'.name \notin DOMAIN etag
             /\ UNCHANGED <<km, files, openfds, nextfd, live, nFetched, opc,
                            oreq>>
          \/ /\ last' = last
             /\ \E t \in Tasks :
                   /\ opc[t] = "idle" /\ opc'[t] = "wait"
                   /\ oreq'[t].key \in DOMAIN etag
      ]_vars

\* C17 witness: the second Open was answered ENOENT while the first one is
\* fetching; the lock table holds the key of the first one only.
NotFoundOnOpenWitness ==
    /\ last.op = "Open" /\ last.res = "ENOENT" /\ last.n = 2
    /\ last.name = Missing
    /\ \E t \in Tasks : opc[t] = "fetch" /\ DOMAIN km = {oreq[t].path}
    /\ openfds = Empty /\ files = Empty

\* C18: a cache file leaves the cache directory only in the os.Remove step of
\* DeleteUntilQuota; no step of an Open takes a file away, and the release of
\* a handle leaves the file of the handle on disk.
OnlyEvictorDeletes ==
    [][ /\ \A p \in DOMAIN files \ DOMAIN files' :
              /\ epc = "remove" /\ epc' = "unlock"
              /\ Cur.path = p
              /\ nRemoved'[p] = nRemoved[p] + 1
              /\ UNCHANGED <<opc, live, openfds>>
        /\ \A t \in Tasks : Stepping(t) => DOMAIN files \subseteq DOMAIN files'
        /\ \A h \in live \ live' :
              /\ Exists(openfds[h])
              /\ openfds[h] \in DOMAIN files'
              /\ files'[openfds[h]] = files[openfds[h]]
      ]_vars

\* C18 witness: the only handle there was has been released, no request is
\* under way, and the file the handle was on is still in the cache.
OnlyEvictorDeletesWitness ==
    /\ nextfd = 2 /\ live = {} /\ openfds = Empty
    /\ \A t \in Tasks : opc[t] = "idle"
    /\ \E p \in DOMAIN files : nFetched[p] = 1 /\ nRemoved[p] = 0

\* The keys whose inner mutex the evictor holds.
EvictorHolds == {k \in DOMAIN km : km[k].owner = Evictor}

\* C20: the evictor holds at most one keyed lock at a time, namely that of
\* the item it is working on; it holds none while it waits in km.Lock for
\* the next item, and none after the pass.
EvictorLockDiscipline ==
    /\ Cardinality(EvictorHolds) <= 1
    /\ epc \in {"sleep", "wait"} => EvictorHolds = {}
    /\ epc \in InEvictCS => EvictorHolds = {Cur.path}

\* C16: a Mkdir, Remove, Create or Rename leaves the object store, the cache
\* directory and the handle registry as they are.
DirMutationsInert ==
    [][ (last'.n # last.n /\ last'.op \in {"Mkdir", "Remove", "Create", "Rename"})
           => /\ etag' = etag
              /\ files' = files
              /\ openfds' = openfds
      ]_vars

\* C19: a Lookup finds the name exactly when the listing of the store holds
\* it at the time of the call.
LookupReflectsStore ==
    last.op = "Lookup" => (last.res = "found" <=> last.listed)

\* ==================================================== claims C21 .. C30
\* C21: from the return of km.Lock(cachePath) to the return of Open the task
\* owns the key of its cache path, so over the existence check, the fetch
\* and the registration of the handle; and a task that is not inside Open
\* owns no key, whichever way Open returned.
OpenHoldsLock ==
    /\ \A t \in Tasks :
          opc[t] \in InOpenCS =>
             /\ oreq[t].path \in DOMAIN km
             /\ km[oreq[t].path].owner = t
    /\ \A t \in Tasks : \A k \in DOMAIN km :
          km[k].owner = t => (opc[t] \in InOpenCS /\ oreq[t].path = k)
    /\ \A t \in Tasks : oreq[t].fh # 0 => opc[t] = "openfile"

\* C21 witness: one Open returned a handle and another one failed at
\* os.OpenFile after Acquire; no request is under way and no key is locked.
OpenHoldsLockWitness ==
    /\ \A t \in Tasks : opc[t] = "idle"
    /\ km = Empty
    /\ live # {}
    /\ DOMAIN openfds \ live # {}

\* C22: a tick whose walk returned an error removes no file and takes no
\* keyed lock: the monitor is back at its timer with nothing changed but the
\* count of ticks.
WalkErrorSkipsTick ==
    [][ (nTicks' # nTicks /\ last'.op = "Tick" /\ last'.n = nTicks') =>
           /\ files' = files
           /\ nRemoved' = nRemoved
           /\ km' = km
           /\ epc' = "sleep"
           /\ ev' = NoEv
      ]_vars

\* C22 witness: the walk of the first tick failed over a cache above the
\* quota, and the second tick has removed a file.
WalkErrorSkipsTickWitness ==
    /\ last.op = "Tick" /\ last.n = 1
    /\ nTicks = 2
    /\ tick.ran /\ tick.total > quota
    /\ \E p \in Paths : nRemoved[p] = 1

\* C23: when the file of an unused item is still there after the os.Remove
\* step, the size of the item is not subtracted from the remaining overage.
RemoveFailureSkips ==
    [][ (epc = "remove" /\ epc' = "unlock" /\ ~ev.used
           /\ Exists(Cur.path) /\ Cur.path \in DOMAIN files')
           => ev'.quota = ev.quota
      ]_vars

\* C26: an Open that returns an error leaves no entry in the handle registry:
\* when Open returns from os.OpenFile without a handle for the kernel, the
\* entry Acquire added for it is gone and no item is used on its account.
FailedOpenLeavesRegistry ==
    [][ \A t \in Tasks :
          (opc[t] = "openfile" /\ opc'[t] = "idle" /\ oreq[t].fh \notin live')
             => /\ oreq[t].fh \notin DOMAIN openfds'
                /\ (~InUse(Release(openfds, oreq[t].fh), oreq[t].path)
                      => ~InUse(openfds', oreq[t].path))
      ]_vars

\* C27 as stated: the evictor removes a file only while the files removed
\* before it in the pass left the snapshot total above the quota.
NoOverDeletionOriginal ==
    [][ (epc = "remove" /\ epc' = "unlock" /\ files' # files)
           => ev.quota > 0
      ]_vars

\* C27 amended: the evictor removes a file only while the remaining overage
\* is zero or more, and a pass whose removals sum to the overage exactly
\* goes on to the next item of the snapshot.
NoOverDeletion ==
    [][ /\ (epc = "remove" /\ epc' = "unlock" /\ files' # files)
              => ev.quota >= 0
        /\ (epc = "unlock" /\ epc' # "unlock" /\ ev.quota = 0
               /\ ev.i < Len(ev.items))
              => (epc' = "wait" /\ ev'.i = ev.i + 1)
        /\ (epc = "unlock" /\ epc' # "unlock" /\ ev.quota < 0)
              => epc' = "sleep"
      ]_vars

\* C27 witness: the second item of a pass was removed at a remaining
\* overage of exactly zero.
NoOverDeletionWitness ==
    /\ epc = "unlock"
    /\ ev.i = 2
    /\ Cur.path \in tick.removed
    /\ ~Exists(Cur.path)
    /\ ev.quota = 0 - Cur.size

\* The evictor waits in km.Lock for a key an Open holds.
EvictorBehindOpen == epc = "wait" /\ Holders(Cur.path) \cap Tasks # {}

\* Items after the current one whose file is present, in no handle and of
\* interest to no Open.
LaterVictims ==
    {j \in (ev.i + 1)..Len(ev.items) :
        /\ Exists(ev.items[j].path)
        /\ ~InUse(openfds, ev.items[j].path)
        /\ Holders(ev.items[j].path) \cup Waiters(ev.items[j].path) = {}}

\* A step of DeleteUntilQuota.
EvStep == EvLocked \/ EvCheck \/ EvRemove \/ EvUnlock

\* C25 as stated: while an Open holds the key of the item the evictor waits
\* for, the evictor can still take a step towards the unused files that come
\* later in its order.
EvictorDelayedOnlyForPOriginal ==
    (EvictorBehindOpen /\ ev.quota >= 0 /\ LaterVictims # {}) => ENABLED EvStep

\* C25 amended: the evictor comes to an item only after it is done with all
\* items before it, and while an Open holds the key of the item the evictor
\* waits for, the pass stays at that item: no file of any path is removed
\* and no other key is locked by the evictor.
EvictorDelayedInOrder ==
    [][ /\ EvictorBehindOpen =>
              /\ ev' = ev
              /\ epc' = epc
              /\ DOMAIN files \subseteq DOMAIN files'
              /\ \A k \in DOMAIN km' : km'[k].owner # Evictor
        /\ epc = "wait" =>
              \A j \in 1..(ev.i - 1) :
                 ev.items[j].path \in tick.removed \cup tick.skipped
      ]_vars

\* C25 witness: the evictor waits for the first item of its snapshot while
\* an Open holds that key; the second item is an unused file and the pass
\* is still over the quota.
EvictorDelayedInOrderWitness ==
    /\ EvictorBehindOpen
    /\ ev.i = 1
    /\ ev.quota >= 0
    /\ LaterVictims # {}

\* The evictor is at os.Remove for an unused item whose file was touched
\* after the walk, and the removal ends the pass.
TouchedVictim ==
    /\ epc = "remove"
    /\ ~ev.used
    /\ Exists(Cur.path)
    /\ files[Cur.path].mtime > Cur.mtime
    /\ Stops(ev.quota - Cur.size)

\* Files in no handle whose current mtime is older than that of path p.
OlderUnused(p) ==
    {r \in DOMAIN files \ {p} :
        ~InUse(openfds, r) /\ files[r].mtime < files[p].mtime}

\* C30 as stated: a file touched after the walk is not removed in that tick
\* while an unused file with an older current mtime stays on disk.
VictimByCurrentMtimeOriginal ==
    [][ (TouchedVictim /\ epc' = "unlock" /\ OlderUnused(Cur.path) # {})
           => Cur.path \in DOMAIN files'
      ]_vars

\* C30 amended: the victims follow the mtimes the walk read.  The snapshot
\* carries the mtime each file had at the walk, an unused item is removed
\* when its turn comes whatever the mtime of its file is by then, and no
\* item later in the snapshot was older at the walk.
VictimBySnapshotMtime ==
    [][ /\ (epc = "sleep" /\ epc' # "sleep") =>
              \A j \in 1..Len(ev'.items) :
                 /\ ev'.items[j].path \in DOMAIN files
                 /\ ev'.items[j].mtime = files[ev'.items[j].path].mtime
        /\ (epc = "remove" /\ epc' = "unlock" /\ ~ev.used) =>
              /\ Cur.path \notin DOMAIN files'
              /\ \A j \in (ev.i + 1)..Len(ev.items) :
                    ev.items[j].mtime >= Cur.mtime
      ]_vars

\* C30 witness: the evictor is about to remove an unused file that was
\* opened and released after the walk, while an unused file whose mtime is
\* older now is not in the pass any more.
VictimBySnapshotMtimeWitness ==
    /\ TouchedVictim
    /\ OlderUnused(Cur.path) # {}
    /\ live = {}
    /\ \A t \in Tasks : opc[t] = "idle"

\* C28: two Opens under way for objects that differ in bucket or in key
\* have different cache paths, so neither finds at its path the file the
\* other has fetched.
CachePathInjective ==
    \A t, u \in Active :
        (oreq[t].bucket # oreq[u].bucket \/ oreq[t].key # oreq[u].key)
           => oreq[t].path # oreq[u].path

\* C24: the monitor is not at its reading of the handle table while an Open
\* or a release holds the registry lock to modify the table.
RegistryAccessUnderLock ==
    epc = "log" => m.by \notin Tasks \cup {"release"}

\* Those that take locks: the request handlers, the evictor, and the release
\* that holds the registry lock.
Parties == Tasks \cup {Evictor, "release"}

\* The holders of the lock party x is blocked on, if it is blocked.
WaitsFor(x) ==
    IF x \in Tasks
    THEN IF opc[x] = "wait"
         THEN {km[oreq[x].path].owner} \ {None}
         ELSE IF opc[x] = "acquire" /\ m.by # x
              THEN {m.by} \ {None}
              ELSE {}
    ELSE IF x = Evictor
    THEN IF epc = "wait"
         THEN {km[Cur.path].owner} \ {None}
         ELSE IF epc = "check" /\ m.by # Evictor
              THEN {m.by} \ {None}
              ELSE {}
    ELSE {}

\* C29: no set of parties has every member waiting for a lock that another
\* member holds; and the registry lock is taken only by one that holds the
\* keyed lock of its path (or by a release, which holds no keyed lock) and
\* is given back before any keyed lock is asked for.
DeadlockFreedom ==
    /\ \A S \in SUBSET Parties \ {{}} : \E x \in S : WaitsFor(x) \cap S = {}
    /\ \A t \in Tasks :
          m.by = t => /\ opc[t] = "acquire"
                      /\ km[oreq[t].path].owner = t
    /\ m.by = Evictor => /\ epc = "check"
                          /\ km[Cur.path].owner = Evictor
    /\ m.by = "release" => m.h \in live
    /\ \A k \in DOMAIN km :
          km[k].owner = None => \/ \E t \in Tasks :
                                     opc[t] = "wait" /\ oreq[t].path = k
                                \/ epc = "wait" /\ Cur.path = k

\* C29 witness: a request waits for the key the evictor holds, and the
\* evictor waits for the registry lock, which a release holds.
DeadlockFreedomWitness ==
    /\ epc = "check"
    /\ m.by = "release"
    /\ \E t \in Tasks : opc[t] = "wait" /\ oreq[t].path = Cur.path
    /\ km[Cur.path].owner = Evictor

====
